---- MODULE Spec2Model ----
(***************************************************************************)
(* Model of the two command-line utilities of adest/aes-scripts:           *)
(*   die.py                      - pick a Docker image and `docker run` it *)
(*   spring-boot-dependencies.py - list resolved dependency versions       *)
(*                                                                         *)
(* A Python string is modelled as a sequence of text chunks.  Every        *)
(* character the code tests for or splits on (":", "-", "/", newline,      *)
(* blanks) is a chunk of its own, so split, strip, `in`, startswith and    *)
(* os.path.join are computed on the text, not assumed.                     *)
(***************************************************************************)
EXTENDS Integers, Sequences, FiniteSets, TLC

\* ------------------------------------------------------------------ bounds
\* lines of a dependency-tree text block
MaxLines == 2
\* colon-separated fields of one generated line
MaxFields == 6

\* ----------------------------------------------------------- Python values
\* None, kept apart from every string (a string is a sequence of short chunks)
None == <<"<None>">>

\* Python truthiness of an optional string: None and "" are falsy
Truthy(s) == s # None /\ s # <<>>

\* ------------------------------------------------------- string operations
NL == "\n"
TAB == "\t"
SP == " "

\* str.isspace() for one character
IsSpace(c) == c \in {SP, TAB, NL}

RECURSIVE LStrip(_)
LStrip(s) == IF s # <<>> /\ IsSpace(Head(s)) THEN LStrip(Tail(s)) ELSE s

RECURSIVE RStrip(_)
RStrip(s) ==
    IF s # <<>> /\ IsSpace(s[Len(s)]) THEN RStrip(SubSeq(s, 1, Len(s) - 1)) ELSE s

\* str.strip()
Strip(s) == RStrip(LStrip(s))

\* str.split(sep) for a one-character separator: always at least one part
RECURSIVE SplitFrom(_, _, _)
SplitFrom(s, sep, cur) ==
    IF s = <<>> THEN <<cur>>
    ELSE IF Head(s) = sep THEN <<cur>> \o SplitFrom(Tail(s), sep, <<>>)
    ELSE SplitFrom(Tail(s), sep, Append(cur, Head(s)))

Split(s, sep) == SplitFrom(s, sep, <<>>)

\* str.splitlines(): like split on newline, but a final newline opens no line
\* and the empty text has no line
SplitLines(s) ==
    IF s = <<>> THEN <<>>
    ELSE IF s[Len(s)] = NL THEN Split(SubSeq(s, 1, Len(s) - 1), NL)
    ELSE Split(s, NL)

\* sep.join(parts)
RECURSIVE Join(_, _)
Join(sep, parts) ==
    IF parts = <<>> THEN <<>>
    ELSE IF Len(parts) = 1 THEN parts[1]
    ELSE parts[1] \o sep \o Join(sep, Tail(parts))

StartsWith(s, p) == Len(p) <= Len(s) /\ SubSeq(s, 1, Len(p)) = p

\* `sub in s`
Contains(s, sub) ==
    \E i \in 1..(Len(s) - Len(sub) + 1) : SubSeq(s, i, i + Len(sub) - 1) = sub

\* The chunks that occur in dependency-tree text, in code-point order of their
\* text.  No chunk is a prefix of another, so comparing chunk by chunk is
\* comparing character by character.
ChunkOrder ==
    << NL, SP, "-", "1.78", "2.18.3", "6.2.6", "7", ":", "a", "bcprov-jdk18on",
       "com.fasterxml.jackson.core", "compile", "jackson-core", "jar", "k",
       "log4j-api", "org.apache.logging.log4j", "org.bouncycastle",
       "org.springframework", "spring-context", "t", "x", "y", "z" >>

Ord(c) == CHOOSE i \in 1..Len(ChunkOrder) : ChunkOrder[i] = c

\* a < b for Python strings
RECURSIVE StrLess(_, _)
StrLess(a, b) ==
    IF b = <<>> THEN FALSE
    ELSE IF a = <<>> THEN TRUE
    ELSE IF Head(a) = Head(b) THEN StrLess(Tail(a), Tail(b))
    ELSE Ord(Head(a)) < Ord(Head(b))

\* sorted(S) for a set of strings
RECURSIVE Sorted(_)
Sorted(S) ==
    IF S = {} THEN <<>>
    ELSE LET m == CHOOSE x \in S : \A y \in S \ {x} : StrLess(x, y)
         IN  <<m>> \o Sorted(S \ {m})

Range(seq) == {seq[i] : i \in 1..Len(seq)}

\* ------------------------------------------------- spring-boot-dependencies
COLON == ":"
DASHES == <<"-", "-", "-">>

\* a variant in which four fields are already enough
LineCoordinateFourFields(line) ==
    IF Contains(line, DASHES) THEN None
    ELSE IF ~Contains(line, <<COLON>>) THEN None
    ELSE LET parts == Split(Strip(line), COLON)
         IN  IF Len(parts) >= 4
             THEN parts[1] \o <<COLON>> \o parts[2] \o <<COLON>> \o parts[4]
             ELSE None

\* the coordinate line 100-105 builds from one line, or None when the line adds
\* nothing
LineCoordinate(line) ==
    IF Contains(line, DASHES) THEN None
    ELSE IF ~Contains(line, <<COLON>>) THEN None
    ELSE LET parts == Split(Strip(line), COLON)
         IN  IF Len(parts) >= 5
             THEN parts[1] \o <<COLON>> \o parts[2] \o <<COLON>> \o parts[4]
             ELSE None

extract_dependencies(text) ==
    LET lines == SplitLines(text)
        deps  == {LineCoordinate(lines[i]) : i \in 1..Len(lines)} \ {None}
    IN  Sorted(deps)


\* print_dependency_version (lines 109-114): the line printed for one filter
\* against the sorted coordinates
RECURSIVE print_dependency_version(_, _, _)
print_dependency_version(deps, name, filter) ==
    IF deps = <<>>
    THEN <<"Aucune version trouvee pour ">> \o filter
    ELSE IF Contains(Head(deps), filter)
         THEN <<"Version de ", name, " : ">> \o Split(Head(deps), COLON)[3]
         ELSE print_dependency_version(Tail(deps), name, filter)

\* --- HTTP: what requests.get can bring back
\* the search API's answer: the transport fails, or a status comes back with a
\* body that parses as JSON or not; docs holds each doc's latestVersion
\* (None: the doc has no such key)
SearchResponses ==
    { [sent |-> TRUE, neterr |-> TRUE,  status |-> 0,   parses |-> FALSE, docs |-> <<>>],
      [sent |-> TRUE, neterr |-> FALSE, status |-> 503, parses |-> FALSE, docs |-> <<>>],
      [sent |-> TRUE, neterr |-> FALSE, status |-> 200, parses |-> FALSE, docs |-> <<>>],
      [sent |-> TRUE, neterr |-> FALSE, status |-> 200, parses |-> TRUE,  docs |-> <<>>],
      [sent |-> TRUE, neterr |-> FALSE, status |-> 200, parses |-> TRUE,  docs |-> << <<"1.27.1">> >>],
      [sent |-> TRUE, neterr |-> FALSE, status |-> 200, parses |-> TRUE,  docs |-> << None >>] }

HttpOk(status) == status < 400

\* a variant that lets the transport error escape the call
get_latest_version_uncaught(resp) ==
    IF resp.neterr
    THEN [value |-> None, raised |-> TRUE, printed |-> <<>>]
    ELSE IF ~HttpOk(resp.status)
    THEN [value |-> None, raised |-> FALSE, printed |-> << <<"Erreur lors de la recuperation de la version : ", "http status">> >>]
    ELSE IF ~resp.parses
    THEN [value |-> None, raised |-> FALSE, printed |-> << <<"Erreur lors de la recuperation de la version : ", "json">> >>]
    ELSE IF resp.docs = <<>>
    THEN [value |-> None, raised |-> FALSE, printed |-> << <<"Erreur lors de la recuperation de la version : ", "Aucune version trouvee">> >>]
    ELSE [value |-> resp.docs[1], raised |-> FALSE, printed |-> <<>>]

\* get_latest_version (lines 117-135): the value returned, the lines printed,
\* and whether an exception leaves the call
get_latest_version(resp) ==
    IF resp.neterr
    THEN [value |-> None, raised |-> FALSE, printed |-> << <<"Erreur lors de la recuperation de la version : ", "connection">> >>]
    ELSE IF ~HttpOk(resp.status)
    THEN [value |-> None, raised |-> FALSE, printed |-> << <<"Erreur lors de la recuperation de la version : ", "http status">> >>]
    ELSE IF ~resp.parses
    THEN [value |-> None, raised |-> FALSE, printed |-> << <<"Erreur lors de la recuperation de la version : ", "json">> >>]
    ELSE IF resp.docs = <<>>
    THEN [value |-> None, raised |-> FALSE, printed |-> << <<"Erreur lors de la recuperation de la version : ", "Aucune version trouvee">> >>]
    ELSE [value |-> resp.docs[1], raised |-> FALSE, printed |-> <<>>]

\* the <dependency> elements of a descriptor: groupId, artifactId, version
\* texts, None for a missing element
IO == <<"commons-io">>
PomDependencies ==
    { <<>>,
      << [g |-> IO, a |-> IO, v |-> <<"2.16.1">>] >>,
      << [g |-> <<"org.ow2.asm">>, a |-> <<"asm">>, v |-> <<"9.7">>],
         [g |-> IO, a |-> IO, v |-> <<"2.16.1">>] >>,
      << [g |-> None, a |-> IO, v |-> <<"2.0">>],
         [g |-> IO, a |-> IO, v |-> None] >> }

\* the repository's answer for the descriptor file; no release is named
\* "None", so that URL is answered 404 when it is answered at all
PomResponses(version) ==
    { [sent |-> TRUE, neterr |-> TRUE,  status |-> 0,   parses |-> FALSE, deps |-> <<>>],
      [sent |-> TRUE, neterr |-> FALSE, status |-> 404, parses |-> FALSE, deps |-> <<>>] }
    \cup
    IF version = None THEN {}
    ELSE { [sent |-> TRUE, neterr |-> FALSE, status |-> 200, parses |-> FALSE, deps |-> <<>>] }
         \cup { [sent |-> TRUE, neterr |-> FALSE, status |-> 200, parses |-> TRUE, deps |-> d] :
                d \in PomDependencies }

\* lines 149-155: the first matching dependency decides
RECURSIVE FindDependency(_, _, _)
FindDependency(deps, dep_group_id, dep_artifact_id) ==
    IF deps = <<>> THEN None
    ELSE LET dep == Head(deps)
         IN  IF dep.g # None /\ dep.a # None /\ dep.g = dep_group_id /\ dep.a = dep_artifact_id
             THEN dep.v
             ELSE FindDependency(Tail(deps), dep_group_id, dep_artifact_id)

\* get_dependency_version (lines 139-158)
get_dependency_version(resp, dep_group_id, dep_artifact_id) ==
    IF resp.neterr
    THEN [value |-> None, raised |-> FALSE, printed |-> << <<"Erreur lors de la recuperation du POM : ", "connection">> >>]
    ELSE IF ~HttpOk(resp.status)
    THEN [value |-> None, raised |-> FALSE, printed |-> << <<"Erreur lors de la recuperation du POM : ", "http status">> >>]
    ELSE IF ~resp.parses
    THEN [value |-> None, raised |-> FALSE, printed |-> << <<"Erreur lors de la recuperation du POM : ", "xml">> >>]
    ELSE [value |-> FindDependency(resp.deps, dep_group_id, dep_artifact_id), raised |-> FALSE, printed |-> <<>>]

\* --- the file system: each temporary directory is absent (None) or holds the
\* text of its pom.xml
TEMP_BOOT_DIR == "spring-boot-temp-project"
TEMP_CLOUD_DIR == "spring-cloud-temp-project"
Dirs == {TEMP_BOOT_DIR, TEMP_CLOUD_DIR}
StalePom == <<"stale">>

\* create_project_structure (lines 72-77)
create_project_structure(files, tmp_dir, template, version) ==
    [files EXCEPT ![tmp_dir] = <<template>> \o version]

\* lines 232-237
remove_temp_dirs(files) == [d \in Dirs |-> None]

\* --- the build tool
\* dependency-tree text blocks mvn may print
HeaderLine == DASHES \o <<SP, "t", COLON, "7", COLON, "t", SP>> \o DASHES
BootTexts ==
    { <<>>,
      Join(<<NL>>, << HeaderLine,
                      <<"org.springframework", COLON, "spring-context", COLON, "jar", COLON, "6.2.6", COLON, "compile">>,
                      <<SP, "com.fasterxml.jackson.core", COLON, "jackson-core", COLON, "jar", COLON, "2.18.3", COLON, "compile">>,
                      <<"org.springframework", COLON, "spring-context", COLON, "jar", COLON, "6.2.6", COLON, "compile">> >>)
        \o <<NL>> }
CloudTexts ==
    { <<>>,
      Join(<<NL>>, << HeaderLine,
                      <<"org.bouncycastle", COLON, "bcprov-jdk18on", COLON, "jar", COLON, "1.78", COLON, "compile">> >>)
        \o <<NL>> }

\* what subprocess.run brings back: the tool cannot be started (OSError), or it
\* ends with a return code, its stdout and its stderr
MvnResults(texts) ==
    { [ran |-> TRUE, started |-> FALSE, returncode |-> 0, stdout |-> <<>>, stderr |-> <<>>],
      [ran |-> TRUE, started |-> TRUE,  returncode |-> 1, stdout |-> <<>>, stderr |-> <<"BUILD FAILURE">>] }
    \cup { [ran |-> TRUE, started |-> TRUE, returncode |-> 0, stdout |-> t, stderr |-> <<>>] : t \in texts }

\* no call made yet
NotRun == [ran |-> FALSE, started |-> FALSE, returncode |-> 0, stdout |-> <<>>, stderr |-> <<>>]

\* a variant that hands back stdout whatever the return code
run_maven_dependency_tree_ignore_rc(result) ==
    [value |-> result.stdout, raised |-> FALSE, printed |-> <<>>]

\* run_maven_dependency_tree (lines 80-91) on a started tool
run_maven_dependency_tree(result) ==
    IF result.returncode # 0
    THEN [value |-> None, raised |-> FALSE, printed |-> << <<"Erreur Maven:", NL, SP>> \o result.stderr >>]
    ELSE [value |-> result.stdout, raised |-> FALSE, printed |-> <<>>]


\* --- command lines: an option is absent (None), given with a value, or given
\* bare
NoValue == <<"<no value>">>
BootOptions == {None, <<>>, <<"3.4.5">>}
CloudOptions == {None, <<>>, <<"2024.0.1">>}
\* --keep is declared without action="store_true" (lines 177-181), so it takes
\* a value; given bare, as a toggle, it comes without one
KeepOptions == {None, NoValue, <<>>, <<"1">>}

VARIABLES
    \* spring-boot-dependencies.py
    sb_argv,             \* the options on the command line
    sb_args,             \* parse_args()'s namespace
    sb_pc,               \* where main() stands
    search_resp, pom_resp,       \* what requests.get brought back
    compress_version, io_version,
    boot_result, cloud_result,   \* what subprocess.run returned
    dependencies,        \* the list main() holds, None before the first parse
    files,               \* the temporary directories
    sb_out,              \* lines printed
    sb_calls,            \* HTTP requests and build-tool runs made, in order
    sb_exit,             \* <<>> while running, <<code>> once the process ended
    \* extract_dependencies on its own
    mvn_output, extracted, ex_pc,
    \* die.py
    die_argv,            \* the options on the command line
    die_env,             \* HOME and the current working directory
    args,                \* parse_args()'s namespace
    die_pc,              \* where main() stands
    ls_result,           \* what `docker image ls` brought back
    fzf_result,          \* what iterfzf brought back
    entrypoint, images, image, cmd,
    made_dirs,           \* directories os.makedirs created
    die_out,             \* lines printed
    die_calls,           \* external programs called, in order
    die_exit             \* <<>> while running, <<code>> once the process ended

sb_vars == << sb_argv, sb_args, sb_pc, search_resp, pom_resp, compress_version, io_version, boot_result,
              cloud_result, dependencies, files, sb_out, sb_calls, sb_exit >>
ex_vars == << mvn_output, extracted, ex_pc >>
die_vars == << die_argv, die_env, args, die_pc, ls_result, fzf_result, entrypoint, images, image, cmd,
               made_dirs, die_out, die_calls, die_exit >>

HELP == <<"usage: [-h] [--spring-boot BOOT] [--spring-cloud CLOUD] [--keep KEEP]">>
USAGE_ERROR == <<"error: expected one argument">>
TRACEBACK == <<"Traceback (most recent call last):">>
RESOLVED == <<"Dependances resolues :">>
REMOVING == <<"Suppression des repertoires temporaires...">>

SPRING_CONTEXT == <<"org.springframework", COLON, "spring-context">>
JACKSON_CORE == <<"com.fasterxml.jackson.core", COLON, "jackson-core">>
LOG4J_API == <<"org.apache.logging.log4j", COLON, "log4j-api">>
BOUNCY == <<"org.bouncycastle">>

\* no request made yet
NoResponse == [sent |-> FALSE]

sb_Init ==
    /\ sb_argv \in [boot : BootOptions, cloud : CloudOptions, keep : KeepOptions]
    /\ sb_args = [boot |-> None, cloud |-> None, keep |-> None]
    /\ sb_pc = "start"
    /\ search_resp = NoResponse
    /\ pom_resp = NoResponse
    /\ compress_version = None
    /\ io_version = None
    /\ boot_result = NotRun
    /\ cloud_result = NotRun
    /\ dependencies = None
    /\ files \in [Dirs -> {None, StalePom}]
    /\ sb_out = <<>>
    /\ sb_calls = <<>>
    /\ sb_exit = <<>>

sb_Idle ==
    /\ sb_argv = [boot |-> None, cloud |-> None, keep |-> None]
    /\ sb_args = [boot |-> None, cloud |-> None, keep |-> None]
    /\ sb_pc = "exit"
    /\ search_resp = NoResponse
    /\ pom_resp = NoResponse
    /\ compress_version = None
    /\ io_version = None
    /\ boot_result = NotRun
    /\ cloud_result = NotRun
    /\ dependencies = None
    /\ files = [d \in Dirs |-> None]
    /\ sb_out = <<>>
    /\ sb_calls = <<>>
    /\ sb_exit = <<>>

\* lines 185-193: parse the command line; help and exit 0 without a version
sb_parse_args ==
    /\ sb_pc = "start"
    /\ IF sb_argv.keep = NoValue   \* argparse: expected one argument
       THEN /\ sb_out' = <<USAGE_ERROR>>
            /\ sb_exit' = <<2>>
            /\ sb_pc' = "exit"
            /\ UNCHANGED sb_args
       ELSE /\ sb_args' = sb_argv
            /\ IF ~Truthy(sb_argv.boot)
               THEN /\ sb_out' = <<HELP>>
                    /\ sb_exit' = <<0>>
                    /\ sb_pc' = "exit"
               ELSE /\ sb_out' = << <<"Dependances depuis maven central :">> >>
                    /\ sb_pc' = "latest"
                    /\ UNCHANGED sb_exit
    /\ UNCHANGED << sb_argv, search_resp, pom_resp, compress_version, io_version,
                    boot_result, cloud_result, dependencies, files, sb_calls >>
    /\ UNCHANGED << ex_vars, die_vars >>

\* lines 194-197
sb_latest_version ==
    /\ sb_pc = "latest"
    /\ \E resp \in SearchResponses :
         LET r == get_latest_version(resp)
         IN  /\ search_resp' = resp
             /\ sb_calls' = Append(sb_calls, "GET search.maven.org")
             /\ IF r.raised   \* an exception out of the call would end main()
                THEN /\ sb_out' = sb_out \o <<TRACEBACK>>
                     /\ sb_exit' = <<1>>
                     /\ sb_pc' = "exit"
                     /\ UNCHANGED compress_version
                ELSE /\ compress_version' = r.value
                     /\ sb_out' = sb_out \o r.printed
                            \o << <<"Derniere version de commons-compress disponible: ">> \o r.value >>
                     /\ sb_pc' = "descriptor"
                     /\ UNCHANGED sb_exit
    /\ UNCHANGED << sb_argv, sb_args, pom_resp, io_version, boot_result, cloud_result,
                    dependencies, files >>
    /\ UNCHANGED << ex_vars, die_vars >>

\* lines 198-199
sb_dependency_version ==
    /\ sb_pc = "descriptor"
    /\ \E resp \in PomResponses(compress_version) :
         LET r == get_dependency_version(resp, IO, IO)
         IN  /\ pom_resp' = resp
             /\ sb_calls' = Append(sb_calls, "GET repo1.maven.org")
             /\ IF r.raised
                THEN /\ sb_out' = sb_out \o <<TRACEBACK>>
                     /\ sb_exit' = <<1>>
                     /\ sb_pc' = "exit"
                     /\ UNCHANGED io_version
                ELSE /\ io_version' = r.value
                     /\ sb_out' = sb_out \o r.printed
                            \o << <<"Version de commons-io: ">> \o r.value >>
                     /\ sb_pc' = "boot"
                     /\ UNCHANGED sb_exit
    /\ UNCHANGED << sb_argv, sb_args, search_resp, compress_version, boot_result,
                    cloud_result, dependencies, files >>
    /\ UNCHANGED << ex_vars, die_vars >>

\* lines 232-237, then main() returns
Cleanup(fs, out) ==
    IF ~Truthy(sb_args.keep)
    THEN [files |-> remove_temp_dirs(fs), out |-> Append(out, REMOVING)]
    ELSE [files |-> fs, out |-> out]

\* lines 201-217, and 232-237 when no Spring Cloud version was asked for
sb_boot ==
    /\ sb_pc = "boot"
    /\ \E result \in MvnResults(BootTexts) :
         LET fs  == create_project_structure(files, TEMP_BOOT_DIR, "POM_BOOT_TEMPLATE", sb_args.boot)
             out == sb_out \o << <<"Generation du projet Spring Boot ">> \o sb_args.boot,
                                 <<"Execution de Maven pour obtenir les dependances...">> >>
             r   == run_maven_dependency_tree(result)
         IN  /\ boot_result' = result
             /\ sb_calls' = Append(sb_calls, "mvn spring-boot-temp-project")
             /\ IF ~result.started
                THEN /\ files' = fs
                     /\ sb_out' = Append(out, TRACEBACK)
                     /\ sb_exit' = <<1>>
                     /\ sb_pc' = "exit"
                     /\ UNCHANGED dependencies
                ELSE IF r.value = None
                THEN /\ files' = fs
                     /\ sb_out' = out \o r.printed
                     /\ sb_exit' = <<0>>
                     /\ sb_pc' = "exit"
                     /\ UNCHANGED dependencies
                ELSE LET deps == extract_dependencies(r.value)
                         o2   == out \o r.printed \o
                                 << RESOLVED,
                                    print_dependency_version(deps, "Spring framework", SPRING_CONTEXT),
                                    print_dependency_version(deps, "Jackson", JACKSON_CORE),
                                    print_dependency_version(deps, "Log4J", LOG4J_API) >>
                     IN  /\ dependencies' = deps
                         /\ IF Truthy(sb_args.cloud)
                            THEN /\ files' = fs
                                 /\ sb_out' = o2
                                 /\ sb_pc' = "cloud"
                                 /\ UNCHANGED sb_exit
                            ELSE /\ files' = Cleanup(fs, o2).files
                                 /\ sb_out' = Cleanup(fs, o2).out
                                 /\ sb_exit' = <<0>>
                                 /\ sb_pc' = "exit"
    /\ UNCHANGED << sb_argv, sb_args, search_resp, pom_resp, compress_version,
                    io_version, cloud_result >>
    /\ UNCHANGED << ex_vars, die_vars >>

\* lines 218-237
sb_cloud ==
    /\ sb_pc = "cloud"
    /\ \E result \in MvnResults(CloudTexts) :
         LET fs  == create_project_structure(files, TEMP_CLOUD_DIR, "POM_CLOUD_TEMPLATE", sb_args.cloud)
             out == sb_out \o << <<"Generation du projet Spring Cloud ">> \o sb_args.cloud,
                                 <<"Execution de Maven pour obtenir les dependances...">> >>
             r   == run_maven_dependency_tree(result)
         IN  /\ cloud_result' = result
             /\ sb_calls' = Append(sb_calls, "mvn spring-cloud-temp-project")
             /\ IF ~result.started
                THEN /\ files' = fs
                     /\ sb_out' = Append(out, TRACEBACK)
                     /\ sb_exit' = <<1>>
                     /\ UNCHANGED dependencies
                ELSE IF r.value = None
                THEN /\ files' = fs
                     /\ sb_out' = out \o r.printed
                     /\ sb_exit' = <<0>>
                     /\ UNCHANGED dependencies
                ELSE LET deps == extract_dependencies(r.value)
                         o2   == out \o r.printed \o
                                 << RESOLVED,
                                    print_dependency_version(deps, "Bouncy Castle", BOUNCY) >>
                     IN  /\ dependencies' = deps
                         /\ files' = Cleanup(fs, o2).files
                         /\ sb_out' = Cleanup(fs, o2).out
                         /\ sb_exit' = <<0>>
             /\ sb_pc' = "exit"
    /\ UNCHANGED << sb_argv, sb_args, search_resp, pom_resp, compress_version,
                    io_version, boot_result >>
    /\ UNCHANGED << ex_vars, die_vars >>


\* ------------------------------------------------------------------ die.py
SLASH == "/"
MNT == <<COLON, SLASH, "mnt/docker-mnt">>
PWD == <<"$(pwd)">>

ImageOptions == {None, <<>>, <<"alpine">>, <<SLASH, "x">>}
Homes == { <<SLASH, "home", SLASH, "u">> }
Cwds == { <<SLASH, "w">>, <<SLASH>> }

\* what `docker image ls` brings back: it fails (check=True raises), or prints
\* one line per image
IMAGE_A == <<"alpine", COLON, "latest", TAB, "2 weeks ago">>
IMAGE_B == <<"busybox", COLON, "1.36", TAB, "3 months ago">>
DockerLsResults ==
    { [ran |-> TRUE, ok |-> FALSE, stdout |-> <<>>],
      [ran |-> TRUE, ok |-> TRUE,  stdout |-> <<>>],
      [ran |-> TRUE, ok |-> TRUE,  stdout |-> IMAGE_A \o <<NL>>],
      [ran |-> TRUE, ok |-> TRUE,  stdout |-> IMAGE_A \o <<NL>> \o IMAGE_B \o <<NL>>] }
NotListed == [ran |-> FALSE, ok |-> FALSE, stdout |-> <<>>]

\* get_docker_images (lines 9-17) on the output of a successful listing
get_docker_images(stdout) == Split(Strip(stdout), NL)

\* what iterfzf brings back: one of the lines, None, or Ctrl-C
Interrupt == <<"<KeyboardInterrupt>">>
NotAsked == <<"<not asked>">>
FzfResults(lines) == Range(lines) \cup {None, Interrupt}

\* fzf_select (lines 19-21)
fzf_select(result) == IF result # None THEN result ELSE <<>>

\* os.path.expanduser for a path that starts with "~"
RECURSIVE RStripSlash(_)
RStripSlash(s) ==
    IF s # <<>> /\ s[Len(s)] = SLASH THEN RStripSlash(SubSeq(s, 1, Len(s) - 1)) ELSE s

expanduser(path, home) ==
    LET r == RStripSlash(home) \o Tail(path)
    IN  IF r = <<>> THEN <<SLASH>> ELSE r

\* os.path.join: a component that starts with "/" discards what precedes it
RECURSIVE path_join(_, _)
path_join(a, rest) ==
    IF rest = <<>> THEN a
    ELSE LET b == Head(rest)
             p == IF StartsWith(b, <<SLASH>>) THEN b
                  ELSE IF a = <<>> \/ a[Len(a)] = SLASH THEN a \o b
                  ELSE a \o <<SLASH>> \o b
         IN  path_join(p, Tail(rest))

\* a variant that never trusts the command line
explicit_image_never(a) == FALSE

\* line 37: an image was named on the command line
explicit_image(a) == Truthy(a.image)

\* a variant that forgets the list holding one empty line
no_images_only_empty_list(imgs) == imgs = <<>>

\* line 41
no_images(imgs) == imgs = <<>> \/ imgs = << <<>> >>

\* line 35
entrypoint_of(a) == IF a.bash \/ (~a.sh /\ ~a.bash) THEN "bash" ELSE "sh"

\* lines 57-58
mount_path_of(img, env) ==
    path_join(expanduser(<<"~">>, env.home), << <<"docker-mnt">>, img >>)

\* lines 49-61: the argument list; an argument is a string
compose_cmd(a, entry, img, env) ==
    << <<"docker">>, <<"run">>, <<"--rm">>, <<"-it">>, <<"--entrypoint">>, <<entry>> >>
    \o (IF a.mount_current THEN << <<"-v">>, env.cwd \o MNT >>
        ELSE IF a.mount THEN << <<"-v">>, mount_path_of(img, env) \o MNT >>
        ELSE <<>>)
    \o << img >>

\* lines 56-59: the directories made
compose_dirs(a, img, env) ==
    IF ~a.mount_current /\ a.mount THEN {mount_path_of(img, env)} ELSE {}

\* lines 64-66: the list as printed in verbose mode
verbose_cmd(a, c) ==
    IF a.mount_current THEN [c EXCEPT ![Len(c) - 1] = PWD \o MNT] ELSE c

\* a variant without the mount group
die_rejects_no_mount_group(argv) ==
    argv.bash /\ argv.sh

\* lines 25-30: what argparse refuses
die_rejects(argv) ==
    \/ argv.bash /\ argv.sh
    \/ argv.mount /\ argv.mount_current

NoArgs == [bash |-> FALSE, sh |-> FALSE, mount |-> FALSE, mount_current |-> FALSE,
           image |-> None, verbose |-> FALSE]

die_Init ==
    /\ die_argv \in [bash : BOOLEAN, sh : BOOLEAN, mount : BOOLEAN,
                     mount_current : BOOLEAN, image : ImageOptions, verbose : BOOLEAN]
    /\ die_env \in [home : Homes, cwd : Cwds]
    /\ args = NoArgs
    /\ die_pc = "start"
    /\ ls_result = NotListed
    /\ fzf_result = NotAsked
    /\ entrypoint = ""
    /\ images = <<>>
    /\ image = None
    /\ cmd = <<>>
    /\ made_dirs = {}
    /\ die_out = <<>>
    /\ die_calls = <<>>
    /\ die_exit = <<>>

die_Idle ==
    /\ die_argv = NoArgs
    /\ die_env = [home |-> <<SLASH>>, cwd |-> <<SLASH>>]
    /\ args = NoArgs
    /\ die_pc = "exit"
    /\ ls_result = NotListed
    /\ fzf_result = NotAsked
    /\ entrypoint = ""
    /\ images = <<>>
    /\ image = None
    /\ cmd = <<>>
    /\ made_dirs = {}
    /\ die_out = <<>>
    /\ die_calls = <<>>
    /\ die_exit = <<>>

\* lines 24-38
die_parse_args ==
    /\ die_pc = "start"
    /\ IF die_rejects(die_argv)
       THEN /\ die_out' = <<USAGE_ERROR>>
            /\ die_exit' = <<2>>
            /\ die_pc' = "exit"
            /\ UNCHANGED << args, entrypoint, image >>
       ELSE /\ args' = die_argv
            /\ entrypoint' = entrypoint_of(die_argv)
            /\ IF explicit_image(die_argv)
               THEN image' = die_argv.image /\ die_pc' = "compose"
               ELSE image' = image /\ die_pc' = "list"
            /\ UNCHANGED << die_out, die_exit >>
    /\ UNCHANGED << die_argv, die_env, ls_result, fzf_result, images, cmd, made_dirs,
                    die_calls >>
    /\ UNCHANGED << sb_vars, ex_vars >>

\* lines 40-43
die_list_images ==
    /\ die_pc = "list"
    /\ die_calls' = Append(die_calls, "docker image ls")
    /\ \E result \in DockerLsResults :
         /\ ls_result' = result
         /\ IF ~result.ok
            THEN /\ die_out' = Append(die_out, TRACEBACK)
                 /\ die_exit' = <<1>>
                 /\ die_pc' = "exit"
                 /\ UNCHANGED images
            ELSE /\ images' = get_docker_images(result.stdout)
                 /\ IF no_images(images')
                    THEN /\ die_out' = Append(die_out, <<"No Docker images found.">>)
                         /\ die_exit' = <<1>>
                         /\ die_pc' = "exit"
                    ELSE /\ die_pc' = "select"
                         /\ UNCHANGED << die_out, die_exit >>
    /\ UNCHANGED << die_argv, die_env, args, fzf_result, entrypoint, image, cmd,
                    made_dirs >>
    /\ UNCHANGED << sb_vars, ex_vars >>

\* lines 44-47, and 75-77 on Ctrl-C
die_select ==
    /\ die_pc = "select"
    /\ die_calls' = Append(die_calls, "iterfzf")
    /\ \E result \in FzfResults(images) :
         /\ fzf_result' = result
         /\ IF result = Interrupt
            THEN /\ die_out' = Append(die_out, <<"Operation annulee. (ctrl+c)">>)
                 /\ die_exit' = <<0>>
                 /\ die_pc' = "exit"
                 /\ UNCHANGED image
            ELSE /\ image' = fzf_select(result)
                 /\ IF ~Truthy(image')
                    THEN /\ die_out' = Append(die_out, <<"No image selected.">>)
                         /\ die_exit' = <<1>>
                         /\ die_pc' = "exit"
                    ELSE /\ die_pc' = "compose"
                         /\ UNCHANGED << die_out, die_exit >>
    /\ UNCHANGED << die_argv, die_env, args, ls_result, entrypoint, images, cmd,
                    made_dirs >>
    /\ UNCHANGED << sb_vars, ex_vars >>

\* a variant that execs whatever the verbose flag
die_run_exec_always ==
    /\ die_pc = "compose"
    /\ cmd' = compose_cmd(args, entrypoint, image, die_env)
    /\ made_dirs' = made_dirs \cup compose_dirs(args, image, die_env)
    /\ die_calls' = Append(die_calls, "execvp docker")
    /\ die_pc' = "replaced"
    /\ UNCHANGED << die_argv, die_env, args, ls_result, fzf_result, entrypoint, images,
                    image, die_out, die_exit >>
    /\ UNCHANGED << sb_vars, ex_vars >>

\* lines 49-70: compose, then print or exec; execvp replaces the process
die_run ==
    /\ die_pc = "compose"
    /\ LET c == compose_cmd(args, entrypoint, image, die_env)
       IN  /\ made_dirs' = made_dirs \cup compose_dirs(args, image, die_env)
           /\ IF args.verbose
              THEN /\ cmd' = verbose_cmd(args, c)
                   /\ die_out' = Append(die_out, Join(<<SP>>, cmd'))
                   /\ die_exit' = <<0>>
                   /\ die_pc' = "exit"
                   /\ UNCHANGED die_calls
              ELSE /\ cmd' = c
                   /\ die_calls' = Append(die_calls, "execvp docker")
                   /\ die_pc' = "replaced"
                   /\ UNCHANGED << die_out, die_exit >>
    /\ UNCHANGED << die_argv, die_env, args, ls_result, fzf_result, entrypoint, images,
                    image >>
    /\ UNCHANGED << sb_vars, ex_vars >>

\* ------------------------------------------------- extract_dependencies alone
\* lines mvn may print: up to MaxFields fields, the first one of two groups,
\* with or without a run of dashes at the end, with or without blanks around
FieldValues(g) == << <<g>>, <<"a">>, <<"t">>, <<"7">>, <<"z">>, <<"k">>, <<"k">>, <<"k">> >>
TreeLine(n, g, dashed, padded) ==
    (IF padded THEN <<SP>> ELSE <<>>)
    \o Join(<<COLON>>, SubSeq(FieldValues(g), 1, n))
    \o (IF dashed THEN DASHES ELSE <<>>)
    \o (IF padded THEN <<SP>> ELSE <<>>)
TreeLines ==
    { TreeLine(n, g, d, p) : n \in 1..MaxFields, g \in {"x", "y"}, d \in BOOLEAN, p \in BOOLEAN }

RECURSIVE TextsOf(_)
TextsOf(n) ==
    IF n = 0 THEN { <<>> }
    ELSE TextsOf(n - 1) \cup { t \o l \o <<NL>> : t \in TextsOf(n - 1), l \in TreeLines }
Texts == TextsOf(MaxLines)

ex_Init ==
    /\ mvn_output \in Texts
    /\ extracted = None
    /\ ex_pc = "start"

ex_Idle ==
    /\ mvn_output = <<>>
    /\ extracted = None
    /\ ex_pc = "done"

\* lines 94-106
ex_extract ==
    /\ ex_pc = "start"
    /\ extracted' = extract_dependencies(mvn_output)
    /\ ex_pc' = "done"
    /\ UNCHANGED mvn_output
    /\ UNCHANGED << sb_vars, die_vars >>

\* -------------------------------------------------------------- specifications
vars == << sb_vars, ex_vars, die_vars >>

\* spring-boot-dependencies.py
Init == sb_Init /\ ex_Idle /\ die_Idle
Next ==
    \/ sb_parse_args
    \/ sb_latest_version
    \/ sb_dependency_version
    \/ sb_boot
    \/ sb_cloud
Spec == Init /\ [][Next]_vars

\* die.py
DieInit == die_Init /\ sb_Idle /\ ex_Idle
DieNext ==
    \/ die_parse_args
    \/ die_list_images
    \/ die_select
    \/ die_run
DieSpec == DieInit /\ [][DieNext]_vars

\* extract_dependencies over generated text blocks
ExtractInit == ex_Init /\ sb_Idle /\ die_Idle
ExtractNext == ex_extract
ExtractSpec == ExtractInit /\ [][ExtractNext]_vars


\* ==================================================================== claims
Last(seq) == seq[Len(seq)]

\* ---------------------------------------------------- extract_dependencies
\* the number of colon-separated fields of a line: its colons, plus one
NumFields(line) == Cardinality({i \in 1..Len(line) : line[i] = COLON}) + 1

\* the coordinate of a line of at least four fields: first, second and fourth
\* field of the line without the blanks around it
CoordinateOf(line) ==
    LET f == Split(Strip(line), COLON)
    IN  f[1] \o <<COLON>> \o f[2] \o <<COLON>> \o f[4]

InputLines == SplitLines(mvn_output)
HasDashes(line) == \E i \in 1..(Len(line) - 2) : \A k \in 0..2 : line[i + k] = "-"

StrictlySorted(seq) == \A i \in 1..(Len(seq) - 1) : StrLess(seq[i], seq[i + 1])

\* C3 as stated: extract_dependencies returns exactly the coordinates of the
\* lines with at least 5 colon-separated fields, none omitted, without
\* duplicates and sorted.
C3_AsStated ==
    ex_pc = "done" =>
        /\ StrictlySorted(extracted)
        /\ Range(extracted) =
             { CoordinateOf(InputLines[i]) :
                 i \in {j \in 1..Len(InputLines) : NumFields(InputLines[j]) >= 5} }

\* C3, amended: extract_dependencies returns exactly the coordinates (first,
\* second and fourth field) of the lines that hold no "---" and have at least 5
\* colon-separated fields, without duplicates and sorted; a line with "---"
\* contributes nothing whatever its fields.
C3_ExtractExact ==
    ex_pc = "done" =>
        /\ StrictlySorted(extracted)
        /\ Range(extracted) =
             { CoordinateOf(InputLines[i]) :
                 i \in {j \in 1..Len(InputLines) :
                          NumFields(InputLines[j]) >= 5 /\ ~HasDashes(InputLines[j])} }

\* a block of two lines of 5 or more fields, one of them with "---": only the
\* other one is extracted
C3_Witness ==
    /\ ex_pc = "done"
    /\ Len(InputLines) = 2
    /\ NumFields(InputLines[1]) >= 5 /\ HasDashes(InputLines[1])
    /\ NumFields(InputLines[2]) >= 5 /\ ~HasDashes(InputLines[2])
    /\ extracted = << CoordinateOf(InputLines[2]) >>

\* ------------------------------------------------ spring-boot-dependencies
Failed(result) == result.ran /\ result.started /\ result.returncode # 0
Succeeded(result) == result.ran /\ result.started /\ result.returncode = 0
CountLines(out, line) == Cardinality({i \in 1..Len(out) : out[i] = line})
MavenError(result) == <<"Erreur Maven:", NL, SP>> \o result.stderr

\* C2 as stated: whenever main() returns after a run that was given a
\* framework version and no keep flag, neither temporary directory exists.
C2_TempDirsRemoved ==
    (sb_pc = "exit" /\ sb_exit = <<0>> /\ Truthy(sb_argv.boot) /\ sb_argv.keep = None)
        => \A d \in Dirs : files[d] = None

\* C6: when the build tool exits non-zero for a variant, the error text is the
\* last thing printed, nothing of that variant is parsed or printed as
\* resolved, and main() returns (exit code 0, no traceback).
C6_BuildFailureAborts ==
    /\ Failed(boot_result) =>
         /\ sb_pc = "exit" /\ sb_exit = <<0>>
         /\ Last(sb_out) = MavenError(boot_result)
         /\ CountLines(sb_out, RESOLVED) = 0
         /\ CountLines(sb_out, TRACEBACK) = 0
         /\ dependencies = None
    /\ Failed(cloud_result) =>
         /\ sb_pc = "exit" /\ sb_exit = <<0>>
         /\ Last(sb_out) = MavenError(cloud_result)
         /\ CountLines(sb_out, RESOLVED) = 1
         /\ CountLines(sb_out, TRACEBACK) = 0
         /\ \A i \in 1..Len(sb_out) : ~Contains(sb_out[i], <<"Bouncy Castle">>)
                                      /\ ~Contains(sb_out[i], BOUNCY)
         /\ dependencies = extract_dependencies(boot_result.stdout)

\* the Spring Cloud build failed after the Spring Boot one went through
C6_Witness ==
    /\ Succeeded(boot_result) /\ boot_result.stdout # <<>>
    /\ Failed(cloud_result)
    /\ sb_pc = "exit"

\* the outcomes of the two queries
Transport(resp) == resp.sent /\ (resp.neterr \/ ~HttpOk(resp.status) \/ ~resp.parses)
SearchEmpty(resp) == resp.sent /\ ~Transport(resp) /\ resp.docs = <<>>
PomEmpty(resp) ==
    /\ resp.sent /\ ~Transport(resp)
    /\ \A i \in 1..Len(resp.deps) : ~(resp.deps[i].g = IO /\ resp.deps[i].a = IO)
SEARCH_ERROR == <<"Erreur lors de la recuperation de la version : ">>
POM_ERROR == <<"Erreur lors de la recuperation du POM : ">>
ErrorLines(out, prefix) == {i \in 1..Len(out) : StartsWith(out[i], prefix)}
BuildToolInvoked ==
    /\ boot_result.ran
    /\ \E i \in 1..Len(sb_calls) : sb_calls[i] = "mvn spring-boot-temp-project"

\* C7 as stated: every failure outcome of either query (network error, HTTP
\* error status, empty result, unparsable body) prints an error line, yields
\* None, and the run goes on to the build tool.
C7_AsStated ==
    /\ (Transport(search_resp) \/ SearchEmpty(search_resp)) =>
         /\ compress_version = None
         /\ ErrorLines(sb_out, SEARCH_ERROR) # {}
         /\ sb_pc = "exit" => BuildToolInvoked
    /\ (Transport(pom_resp) \/ PomEmpty(pom_resp)) =>
         /\ io_version = None
         /\ ErrorLines(sb_out, POM_ERROR) # {}
         /\ sb_pc = "exit" => BuildToolInvoked

\* C7, amended: a network error, an HTTP error status or an unparsable body of
\* either query, and an empty document list of the latest-version query, print
\* an error line and yield None; a descriptor that does not name the dependency
\* yields None with no error line; in every case the run goes on to generate
\* the project and invoke the build tool.
C7_HttpFailuresContinue ==
    /\ (Transport(search_resp) \/ SearchEmpty(search_resp)) =>
         /\ compress_version = None
         /\ Cardinality(ErrorLines(sb_out, SEARCH_ERROR)) = 1
    /\ Transport(pom_resp) =>
         /\ io_version = None
         /\ Cardinality(ErrorLines(sb_out, POM_ERROR)) = 1
    /\ PomEmpty(pom_resp) =>
         /\ io_version = None
         /\ ErrorLines(sb_out, POM_ERROR) = {}
    /\ search_resp.sent =>
         /\ CountLines(sb_out, TRACEBACK) = 0 \/ boot_result.ran
         /\ sb_pc = "exit" => (pom_resp.sent /\ BuildToolInvoked)

\* both queries failed and the build tool ran all the same
C7_Witness ==
    /\ search_resp.sent /\ search_resp.neterr
    /\ pom_resp.sent /\ ~pom_resp.neterr /\ ~HttpOk(pom_resp.status)
    /\ Succeeded(boot_result)
    /\ sb_pc = "exit"

\* C8 as stated: without --spring-boot, whatever the other flags, the lister
\* prints help and exits 0, with no HTTP request, no build-tool run and no
\* temporary directory created or removed.
C8_HelpWithoutVersion ==
    [][ sb_argv.boot = None =>
          /\ files' = files
          /\ sb_calls' = <<>>
          /\ ~boot_result'.ran /\ ~cloud_result'.ran
          /\ sb_pc' = "exit" => (sb_out' = <<HELP>> /\ sb_exit' = <<0>>) ]_vars


\* ------------------------------------------------------------------ die.py
Called(what) == \E i \in 1..Len(die_calls) : die_calls[i] = what
Composed == cmd # <<>>
Rejected == die_pc = "exit" /\ die_exit = <<2>>

\* C1 as stated: with --verbose the container runtime is never invoked
\* (neither the image listing nor docker run) and nothing happens but the
\* printing of the command line.
C1_AsStated ==
    die_argv.verbose =>
        /\ ~Called("docker image ls")
        /\ ~Called("execvp docker")
        /\ made_dirs = {}

\* C1, amended: with --verbose docker run is never executed: a run that
\* reaches composition prints the command line and exits 0 instead; the image
\* listing is still invoked when no non-empty --image value is given, and the
\* host directory is still created under --mount.
C1_VerboseNeverRuns ==
    die_argv.verbose =>
        /\ ~Called("execvp docker") /\ die_pc # "replaced"
        /\ Called("docker image ls") => ~Truthy(die_argv.image)
        /\ (Composed /\ ~Truthy(die_argv.image)) => Called("docker image ls")
        /\ made_dirs # {} => die_argv.mount
        /\ Composed => /\ die_pc = "exit" /\ die_exit = <<0>>
                       /\ Last(die_out) = Join(<<SP>>, cmd)

\* a verbose run listed the images, made the mount directory and printed
C1_Witness ==
    /\ die_argv.verbose
    /\ Called("docker image ls")
    /\ made_dirs # {}
    /\ Composed /\ die_pc = "exit"

\* C4 as stated: with --image supplied, whatever its value, the selector is
\* never called and the value is the image of the composed command.
C4_AsStated ==
    die_argv.image # None =>
        /\ ~Called("iterfzf")
        /\ Composed => Last(cmd) = die_argv.image

\* C4, amended: with a non-empty --image value the images are not listed, the
\* selector is never called and the value is the image of the composed
\* command; an empty value is treated as no --image at all.
C4_ExplicitImageSkipsSelection ==
    /\ Truthy(die_argv.image) =>
         /\ ~Called("iterfzf") /\ ~Called("docker image ls")
         /\ fzf_result = NotAsked
         /\ Composed => Last(cmd) = die_argv.image
    /\ (die_argv.image = <<>> /\ Composed) => Called("iterfzf")

\* a command composed from the --image value
C4_Witness ==
    /\ Truthy(die_argv.image)
    /\ Composed /\ Last(cmd) = die_argv.image
    /\ die_pc = "replaced"

EmptyListing == ls_result.ran /\ ls_result.ok /\ ls_result.stdout = <<>>
EmptyPick == fzf_result \in {None, <<>>}

CountArgs(c, a) == Cardinality({i \in 1..Len(c) : c[i] = a})

\* C9: a command line with both --mount and --mount-current is rejected by
\* the parser before any external call, so a composed command carries at most
\* one -v argument.
C9_MountFlagsExclusive ==
    /\ (die_argv.mount /\ die_argv.mount_current) =>
         /\ die_calls = <<>> /\ made_dirs = {} /\ ~Composed
         /\ ~ls_result.ran /\ fzf_result = NotAsked
         /\ die_pc # "start" => Rejected
    /\ Composed => CountArgs(cmd, <<"-v">>) <= 1

\* both flags given, and the parser has refused them
C9_Witness == die_argv.mount /\ die_argv.mount_current /\ Rejected

\* the command C10 describes, for a host directory
CommandWith(mount) ==
    << <<"docker">>, <<"run">>, <<"--rm">>, <<"-it">>, <<"--entrypoint">>,
       << IF die_argv.sh THEN "sh" ELSE "bash" >> >> \o mount \o << image >>
BindMount(host) == << <<"-v">>, host \o <<COLON, SLASH, "mnt/docker-mnt">> >>
\* ~/docker-mnt/<image>
HomeRelative == expanduser(<<"~", SLASH, "docker-mnt", SLASH>> \o image, die_env.home)

\* C10 as stated: a composed command is docker run --rm -it --entrypoint
\* <shell> [-v <host>:/mnt/docker-mnt] <image>, with sh exactly under --sh,
\* <host> the working directory (printed as $(pwd)) under --mount-current and
\* ~/docker-mnt/<image> under --mount, and a directory made only under --mount.
C10_CommandExact ==
    Composed =>
        IF die_argv.mount_current
        THEN /\ cmd \in {CommandWith(BindMount(die_env.cwd)), CommandWith(BindMount(PWD))}
             /\ made_dirs = {}
        ELSE IF die_argv.mount
        THEN /\ cmd = CommandWith(BindMount(HomeRelative))
             /\ made_dirs = {HomeRelative}
        ELSE /\ cmd = CommandWith(<<>>)
             /\ made_dirs = {}

====
